---------------------------- MODULE Spec2Model ----------------------------
(***************************************************************************)
(* A model of blockchain.py: the Blockchain ledger (chain, pending         *)
(* transactions, hashing, proof of work, chain validation, consensus), the *)
(* PyCryptoSim signature simulator and the Ent operations built on them.   *)
(*                                                                         *)
(* Python lists of transactions are objects with identity: a block holds a *)
(* reference to its transaction list, and Blockchain.clone copies the      *)
(* block dictionaries shallowly, so the lists live in a heap (lists) and   *)
(* blocks and ledgers hold references into it.                             *)
(***************************************************************************)
EXTENDS Integers, Sequences, FiniteSets, TLC

VARIABLES
    ledgers,   \* sequence of Blockchain objects; ledgers[1] is the node's own
    lists,     \* heap of transaction-list objects: reference -> sequence
    ents,      \* the Ent objects, by name
    uuid,      \* number of identifiers uuid4() has produced
    now,       \* the clock read by time()
    pow,       \* a proof_of_work call in progress (its loop, step by step)
    calls,     \* per thread, the call it is in and the line it has reached
    last       \* the last call: its operation, its inputs and its result

vars == <<ledgers, lists, ents, uuid, now, pow, calls, last>>

----------------------------------------------------------------------------
(* Bounds of the model.                                                    *)

MaxChain == 3
MaxLedgers == 2
MaxPending == 1
MaxKeys == 3
MaxAmount == 2
MaxRequest == 1
MaxTime == 2
MaxNonce == 40
MaxRate == 5
MaxPeers == 2
MaxThreads == 2

(* Program constants.                                                      *)

DefaultProof == 100
DefaultRate == 4
PrefixLen == 4
CommitBytes == 64
KeyBytes == 32
Reward == 1
UuidLen == 36
FromMine == 1

----------------------------------------------------------------------------
(* Strings.  A string is a sequence of one-character strings.              *)

Min(a, b) == IF a < b THEN a ELSE b

Digit(d) == <<"0", "1", "2", "3", "4", "5", "6", "7", "8", "9">>[d + 1]

\* str(n) / f'{n}' for a natural number: its decimal digits.
RECURSIVE Decimal(_)
Decimal(n) == IF n < 10 THEN <<Digit(n)>>
              ELSE Decimal(n \div 10) \o <<Digit(n % 10)>>

\* s[:k]
Prefix(s, k) == SubSeq(s, 1, Min(Len(s), IF k < 0 THEN 0 ELSE k))

\* "0" * k
Zeros(k) == [i \in 1..k |-> "0"]

CharCode(c) == CASE c = "0" -> 0 [] c = "1" -> 1 [] c = "2" -> 2
                 [] c = "3" -> 3 [] c = "4" -> 4 [] c = "5" -> 5
                 [] c = "6" -> 6 [] c = "7" -> 7 [] c = "8" -> 8
                 [] OTHER -> 9

----------------------------------------------------------------------------
(* hashlib.sha256(...).hexdigest().  Two stand-ins for the library call:   *)
(* where the code only compares digests for equality (block hashes,        *)
(* commitments) the digest is collision free, the tagged preimage; where   *)
(* the code looks at the characters of the digest (valid_proof) it is a    *)
(* short hex string computed from the bytes hashed.                        *)

Sha256(preimage) == <<"sha256", preimage>>

RECURSIVE Fold(_, _)
Fold(s, h) == IF s = <<>> THEN h
              ELSE Fold(Tail(s), (h * 7 + CharCode(Head(s)) + 3) % 16)

HexChar(v) == <<"0", "1", "2", "3", "4", "5", "6", "7",
                "8", "9", "a", "b", "c", "d", "e", "f">>[v + 1]

HexDigest(bytes) ==
    LET h == Fold(bytes, 1)
    IN  << HexChar((h % 2) * 3), HexChar(((h \div 2) % 2) * 10),
           HexChar(((h \div 4) % 2) * 7), HexChar(((h \div 8) % 2) * 15),
           HexChar((h * 5 + 1) % 16), HexChar((h * 11 + 6) % 16) >>

----------------------------------------------------------------------------
(* Blockchain.valid_proof and Blockchain.proof_of_work.                    *)

ValidProof(last_proof, proof, mining_rate) ==
    LET guess == Decimal(last_proof) \o Decimal(proof)
        guess_hash == HexDigest(guess)
    IN  Prefix(guess_hash, PrefixLen) = Zeros(mining_rate)

\* The loop of proof_of_work from candidate `proof` on; -1 when no candidate
\* up to MaxNonce is accepted (the loop is still running there).
RECURSIVE SearchFrom(_, _, _)
SearchFrom(last_proof, proof, mining_rate) ==
    IF proof > MaxNonce THEN -1
    ELSE IF ValidProof(last_proof, proof, mining_rate) THEN proof
    ELSE SearchFrom(last_proof, proof + 1, mining_rate)

ProofOfWork(last_proof, mining_rate) == SearchFrom(last_proof, 0, mining_rate)

----------------------------------------------------------------------------
(* Values.  An address is a natural number: 0 is None (or the empty        *)
(* string), FromMine is the string 'from mine', the others are the         *)
(* identifiers minted from uuid4().  The one-element tuple (a,) that       *)
(* some_fake stores as a recipient is the value -a: it equals no address.  *)
(* A digest is a tuple; None (no signature, no previous_hash) is <<>>.     *)

None == <<>>
NoAddr == 0
Sentinel == <<"1">>
TupleOf(a) == 0 - a
Truthy(a) == a # NoAddr

\* dict.get on a dictionary kept as its items in insertion order.
RECURSIVE Get(_, _)
Get(items, key) == IF items = <<>> THEN NoAddr
                   ELSE IF Head(items)[1] = key THEN Head(items)[2]
                   ELSE Get(Tail(items), key)

\* d[key] = value
Put(items, key, value) ==
    IF \E i \in 1..Len(items) : items[i][1] = key
    THEN [i \in 1..Len(items) |->
             IF items[i][1] = key THEN <<key, value>> ELSE items[i]]
    ELSE Append(items, <<key, value>>)

----------------------------------------------------------------------------
(* json.dumps(block, sort_keys=True) and Blockchain.hash.  A block given   *)
(* as a value carries its transactions themselves (what json.dumps walks,  *)
(* and what a peer sends); a block of a ledger carries a reference.        *)

\* keys in order: amount, message, recipient, sender, signature
TxJson(t) == IF t.signature = None
             THEN <<t.amount, t.recipient, t.sender>>
             ELSE <<t.amount, t.message, t.recipient, t.sender, t.signature>>

\* keys in order: index, previous_hash, proof, timestamp, transactions
JsonDumps(b) == <<b.index, b.previous_hash, b.proof, b.timestamp,
                  [i \in 1..Len(b.transactions) |-> TxJson(b.transactions[i])]>>

Hash(b) == Sha256(JsonDumps(b))

\* The value of a block of a ledger: its transaction list read from the heap.
BlockValue(b, heap) == [b EXCEPT !.transactions = heap[b.transactions]]

ChainValue(chain, heap) == [i \in 1..Len(chain) |-> BlockValue(chain[i], heap)]

----------------------------------------------------------------------------
(* Blockchain.valid_chain, on a chain given as a value (never empty: the   *)
(* callers raise on chain[0] of an empty chain before the loop).           *)

RECURSIVE ValidFrom(_, _, _)
ValidFrom(chain, current_index, mining_rate) ==
    IF current_index > Len(chain) THEN TRUE
    ELSE LET last_block == chain[current_index - 1]
             block == chain[current_index]
         IN  IF block.previous_hash # Hash(last_block) THEN FALSE
             ELSE IF ~ValidProof(last_block.proof, block.proof, mining_rate)
                  THEN FALSE
             ELSE ValidFrom(chain, current_index + 1, mining_rate)

ValidChain(chain, mining_rate) == ValidFrom(chain, 2, mining_rate)

----------------------------------------------------------------------------
(* The Blockchain methods, as functions of a world w: the ledger w.L they  *)
(* are called on and the heap w.H of transaction lists.                    *)

LastBlock(L) == L.chain[Len(L.chain)]

\* new_transaction: the dictionary it builds.
Transaction(sender, recipient, amount, signature, msg) ==
    [sender |-> sender, recipient |-> recipient, amount |-> amount,
     signature |-> IF msg # 0 /\ signature # None THEN signature ELSE None,
     message |-> IF msg # 0 /\ signature # None THEN msg ELSE 0]

\* new_transaction: appends to the list current_transactions refers to.
NewTransaction(w, sender, recipient, amount, signature, msg) ==
    [w EXCEPT !.H[w.L.current_transactions] =
        Append(@, Transaction(sender, recipient, amount, signature, msg))]

\* new_transaction: the value it returns.
NewTransactionIndex(L) == LastBlock(L).index + 1

\* A faulty new_block that falls back to the hash of chain[0], not
\* chain[-1]: the fault C2's linkage property has to expose.
PreviousHashOrFirst(previous_hash, L, heap) ==
    IF previous_hash # None THEN previous_hash
    ELSE Hash(BlockValue(L.chain[1], heap))

\* previous_hash or self.hash(self.chain[-1])
PreviousHashOr(previous_hash, L, heap) ==
    IF previous_hash # None THEN previous_hash
    ELSE Hash(BlockValue(LastBlock(L), heap))

\* new_block: the block takes the list object that was the pending buffer,
\* and current_transactions is bound to a new empty list.
NewBlock(w, proof, previous_hash, timestamp) ==
    LET block == [index |-> Len(w.L.chain) + 1,
                  timestamp |-> timestamp,
                  transactions |-> w.L.current_transactions,
                  proof |-> proof,
                  previous_hash |-> PreviousHashOr(previous_hash, w.L, w.H)]
    IN  [L |-> [w.L EXCEPT !.current_transactions = Len(w.H) + 1,
                           !.chain = Append(@, block)],
         H |-> Append(w.H, <<>>)]

\* Blockchain(proof, mining_rate): the genesis block is sealed at once.
Blockchain(heap, proof, mining_rate, timestamp) ==
    [L |-> [chain |-> << [index |-> 1, timestamp |-> timestamp,
                          transactions |-> Len(heap) + 1, proof |-> proof,
                          previous_hash |-> Sentinel] >>,
            current_transactions |-> Len(heap) + 2,
            nodes |-> {},
            mining_rate |-> mining_rate,
            proof_sum |-> 0,
            proof_cnt |-> 0],
     H |-> heap \o << <<>>, <<>> >>]

\* clone: [c.copy() for c in self.chain] copies each block dictionary, not
\* the list its 'transactions' key refers to; the pending transactions are
\* copied one by one into a new list.  Blockchain() gives the copy the
\* default mining_rate and fresh proof statistics.
CloneChain(chain) == [i \in 1..Len(chain) |-> chain[i]]

Clone(w) ==
    [L |-> [chain |-> CloneChain(w.L.chain),
            current_transactions |-> Len(w.H) + 1,
            nodes |-> w.L.nodes,
            mining_rate |-> DefaultRate,
            proof_sum |-> 0,
            proof_cnt |-> 0],
     H |-> Append(w.H, w.H[w.L.current_transactions])]

\* A faulty work_for_proof that returns without searching: the fault C20's
\* property has to expose.
WorkForProofZero(L) == 0

\* work_for_proof / proof_of_work, when the search returns.
WorkForProof(L) == ProofOfWork(LastBlock(L).proof, L.mining_rate)

Worked(w, proof) == [w EXCEPT !.L.proof_sum = @ + proof,
                              !.L.proof_cnt = @ + 1]

----------------------------------------------------------------------------
(* PyCryptoSim.  An identifier is KeyBytes characters (a uuid4 without     *)
(* dashes); a message is the string f"{msg}" of what the caller passes.    *)

\* The n-th identifier uuid4() produces (0 and FromMine are no identifiers).
Id(n) == n + 2

\* f"{int(time())}", f"{str(time())}" and f"{uuid4()}"
IntStr(t) == Decimal(t)
TimeStr(t) == Decimal(t) \o <<".", "0">>
UuidStr(u) == [i \in 1..UuidLen |->
                  IF i \in {9, 14, 19, 24} THEN "-" ELSE Digit((u + i) % 10)]

\* commit: f"{private}{msg}".encode()[:64], hashed.  The bytes hashed are
\* the KeyBytes characters of the identifier and as much of the message as
\* the remaining bytes hold.
Commit(private, msg) == Sha256(<<private, Prefix(msg, CommitBytes - KeyBytes)>>)

Verify(pairs, public, msg, commit) ==
    LET my_sk == Get(pairs, public)
    IN  IF my_sk = NoAddr THEN FALSE
        ELSE Commit(my_sk, msg) = commit

\* key_pair: registers public -> private when public is not registered; the
\* while loop never leaves when it is (the caller guards on KeyPairReturns).
KeyPairReturns(pairs, public) == Get(pairs, public) = NoAddr

KeyPair(pairs, public, private) == Put(pairs, public, private)

----------------------------------------------------------------------------
(* Ent.  keys and crypto.pairs are dictionaries in insertion order.        *)

NewEnt == [keys |-> <<>>, crypto |-> <<>>]

\* new_address with the identifiers Id(u), Id(u + 1) drawn by key_pair.
NewAddress(ent, u) ==
    [ent EXCEPT !.crypto = KeyPair(@, Id(u), Id(u + 1)),
                !.keys = Put(@, Id(u), Id(u + 1))]

\* All transactions of a chain value, block after block.
RECURSIVE Transactions(_)
Transactions(chain) ==
    IF chain = <<>> THEN <<>>
    ELSE Head(chain).transactions \o Transactions(Tail(chain))

\* balance: what one transaction adds to balance[pk].  The messages signed
\* and verified are drawn anew (str(time()), uuid4()), not read from the
\* transaction.
Debits(ent, pk, sk, t, tm) ==
    /\ pk = t.sender
    /\ Verify(ent.crypto, t.sender, TimeStr(tm), Commit(sk, TimeStr(tm)))

\* A faulty balance that verifies the credit against the sender's key: the
\* fault C13's property has to expose.
CreditsVerifySender(ent, pk, sk, t, u) ==
    /\ pk = t.recipient
    /\ Verify(ent.crypto, t.sender, UuidStr(u), Commit(sk, UuidStr(u)))

Credits(ent, pk, sk, t, u) ==
    /\ pk = t.recipient
    /\ Verify(ent.crypto, t.recipient, UuidStr(u), Commit(sk, UuidStr(u)))

TxEffect(ent, pk, sk, t, tm, u) ==
    (IF Debits(ent, pk, sk, t, tm) THEN 0 - t.amount ELSE 0)
    + (IF Credits(ent, pk, sk, t, u) THEN t.amount ELSE 0)

RECURSIVE SumEffects(_, _, _, _, _, _)
SumEffects(ent, pk, sk, txs, tm, u) ==
    IF txs = <<>> THEN 0
    ELSE TxEffect(ent, pk, sk, Head(txs), tm, u)
         + SumEffects(ent, pk, sk, Tail(txs), tm, u)

\* balance: the dictionary, as items <<pk, coins>> in the order of keys.
Balance(ent, chain, tm, u) ==
    [i \in 1..Len(ent.keys) |->
        <<ent.keys[i][1],
          SumEffects(ent, ent.keys[i][1], ent.keys[i][2],
                     Transactions(chain), tm, u)>>]

RECURSIVE Total(_)
Total(balance) == IF balance = <<>> THEN 0
                  ELSE Head(balance)[2] + Total(Tail(balance))

----------------------------------------------------------------------------
(* Ent.gives.  The loop over balance.items() carries st: the amount still  *)
(* due, the copy being written (st.w), the entities (the recipient mints   *)
(* an address per transaction), the uuid count and how the loop stands:    *)
(* "run", "break", or the exception raised.                                *)

\* A faulty funds test that lets a request one coin over the total pass:
\* the fault C7's property has to expose.
InsufficientOffByOne(amount, held) == amount > held + 1

Insufficient(amount, held) == amount > held

\* A faulty payment that takes all that is due from the first address with
\* coins, whatever it holds: the fault C16's property has to expose.
PayDue(due, coins) == due

Pay(due, coins) == IF due > coins THEN coins ELSE due

GivesStep(st, payer, coins, r, tm) ==
    IF coins < 0 THEN [st EXCEPT !.status = "negative balance"]
    ELSE IF coins = 0 THEN st
    ELSE LET pay == Pay(st.due, coins)
             due == st.due - pay
         IN  [due |-> due,
              w |-> NewTransaction(st.w, payer, Id(st.uuid), pay,
                                   Commit(payer, IntStr(tm)), tm),
              ents |-> [st.ents EXCEPT ![r] = NewAddress(@, st.uuid)],
              uuid |-> st.uuid + 2,
              status |-> IF due = 0 THEN "break"
                         ELSE IF due < 0 THEN "overpayed!"
                         ELSE "run"]

RECURSIVE GivesLoop(_, _, _, _)
GivesLoop(items, st, r, tm) ==
    IF items = <<>> \/ st.status # "run" THEN st
    ELSE GivesLoop(Tail(items),
                   GivesStep(st, Head(items)[1], Head(items)[2], r, tm),
                   r, tm)

\* The four lines after the loop: hash the last block, work, seal.
Seal(w, tm) ==
    LET previous_hash == Hash(BlockValue(LastBlock(w.L), w.H))
        proof == WorkForProof(w.L)
    IN  NewBlock(Worked(w, proof), proof, previous_hash, tm)

\* gives, from the world of the ledger passed in: the status "ok" with the
\* copy returned, or the exception raised, and the entities and uuid count
\* as the call leaves them.
Gives(w, es, u, e, r, amount, tm) ==
    LET copy == Clone(w)
        balance == Balance(es[e], ChainValue(w.L.chain, w.H), tm, u)
        held == Total(balance)
        st == GivesLoop(balance,
                        [due |-> amount, w |-> copy, ents |-> es, uuid |-> u,
                         status |-> "run"], r, tm)
    IN  IF Insufficient(amount, held)
        THEN [status |-> "insufficient balance", w |-> w, ents |-> es,
              uuid |-> u, held |-> held, balance |-> balance]
        ELSE IF st.status \in {"run", "break"}
        THEN [status |-> "ok", w |-> Seal(st.w, tm), ents |-> st.ents,
              uuid |-> st.uuid, held |-> held, balance |-> balance]
        ELSE [status |-> st.status, w |-> w, ents |-> st.ents,
              uuid |-> st.uuid, held |-> held, balance |-> balance]

----------------------------------------------------------------------------
(* Ent.mine (when it does not return None) and Ent.some_fake.              *)

Mine(w, ent, u, tm) ==
    LET copy == Clone(w)
        last_block == LastBlock(copy.L)
        proof == WorkForProof(copy.L)
        paid == NewTransaction(Worked(copy, proof), FromMine, Id(u),
                               Reward, None, 0)
        previous_hash == Hash(BlockValue(last_block, paid.H))
    IN  [w |-> NewBlock(paid, proof, previous_hash, tm),
         ent |-> NewAddress(ent, u)]

\* The first index of txs whose transaction has a recipient, or 0.
RECURSIVE FirstWithRecipient(_, _)
FirstWithRecipient(txs, j) ==
    IF j > Len(txs) THEN 0
    ELSE IF Truthy(txs[j].recipient) THEN j
    ELSE FirstWithRecipient(txs, j + 1)

\* The first block of the chain holding such a transaction, or 0.
RECURSIVE FirstBlockToFake(_, _, _)
FirstBlockToFake(chain, heap, i) ==
    IF i > Len(chain) THEN 0
    ELSE IF FirstWithRecipient(heap[chain[i].transactions], 1) # 0 THEN i
    ELSE FirstBlockToFake(chain, heap, i + 1)

\* A faulty some_fake that appends to the block's own list, the one the
\* copy shares with the original: the fault C4's property has to expose.
TamperInPlace(w, i, t) ==
    [w EXCEPT !.H[w.L.chain[i].transactions] = Append(@, t)]

\* some_fake's writes: the list is copied, the transaction appended to the
\* copy, and a copy of the block given the new list.
Tamper(w, i, t) ==
    [L |-> [w.L EXCEPT !.chain[i].transactions = Len(w.H) + 1],
     H |-> Append(w.H, Append(w.H[w.L.chain[i].transactions], t))]

SomeFake(w, ent, u) ==
    LET faked == Clone(w)
        i == FirstBlockToFake(faked.L.chain, faked.H, 1)
        txs == faked.H[faked.L.chain[i].transactions]
        transaction == txs[FirstWithRecipient(txs, 1)]
    IN  IF i = 0 THEN [w |-> faked, ent |-> ent, minted |-> 0]
        ELSE [w |-> Tamper(faked, i,
                      [transaction EXCEPT !.recipient = TupleOf(Id(u))]),
              ent |-> NewAddress(ent, u),
              minted |-> 2]

\* validate_blockchain
ValidateBlockchain(w) ==
    IF ValidChain(ChainValue(w.L.chain, w.H), w.L.mining_rate)
    THEN "accepts" ELSE "rejects"

----------------------------------------------------------------------------
(* The state after construction: the node's Blockchain() and the entities. *)

Ents == {"A", "B"}

World(l) == [L |-> ledgers[l], H |-> lists]

Idle == [phase |-> "idle"]

\* The threads that serve requests, and a thread in no call.
Threads == 1..MaxThreads

NoCall == [op |-> "none"]

Init ==
    /\ ledgers = << Blockchain(<<>>, DefaultProof, DefaultRate, 1).L >>
    /\ lists = Blockchain(<<>>, DefaultProof, DefaultRate, 1).H
    /\ ents = [e \in Ents |-> NewEnt]
    /\ uuid = 0
    /\ now = 1
    /\ pow = Idle
    /\ calls = [t \in Threads |-> NoCall]
    /\ last = [op |-> "init"]

\* All identifiers the entities hold.
Minted == UNION {{ents[e].keys[i][1] : i \in 1..Len(ents[e].keys)} : e \in Ents}

----------------------------------------------------------------------------
(* The calls.  Each takes the ledger it is called on by its place l in     *)
(* ledgers; an Ent operation returns a new ledger, which takes the next    *)
(* place.                                                                  *)

Tick ==
    /\ now < MaxTime
    /\ now' = now + 1
    /\ last' = [op |-> "tick"]
    /\ UNCHANGED <<ledgers, lists, ents, uuid, pow, calls>>

NewAddressCall(e) ==
    /\ Len(ents[e].keys) < MaxKeys
    /\ KeyPairReturns(ents[e].crypto, Id(uuid))
    /\ ents' = [ents EXCEPT ![e] = NewAddress(@, uuid)]
    /\ uuid' = uuid + 2
    /\ last' = [op |-> "new_address", ent |-> e, public |-> Id(uuid)]
    /\ UNCHANGED <<ledgers, lists, now, pow, calls>>

NewTransactionCall(l, sender, recipient, amount) ==
    /\ Len(lists[ledgers[l].current_transactions]) < MaxPending
    /\ lists' = NewTransaction(World(l), sender, recipient, amount, None, 0).H
    /\ last' = [op |-> "new_transaction", ledger |-> l, sender |-> sender,
                recipient |-> recipient, amount |-> amount,
                index |-> NewTransactionIndex(ledgers[l])]
    /\ UNCHANGED <<ledgers, ents, uuid, now, pow, calls>>

NewBlockCall(l, proof, previous_hash) ==
    /\ Len(ledgers[l].chain) < MaxChain
    /\ \E w \in {NewBlock(World(l), proof, previous_hash, now)} :
          /\ ledgers' = [ledgers EXCEPT ![l] = w.L]
          /\ lists' = w.H
    /\ last' = [op |-> "new_block", ledger |-> l, proof |-> proof,
                previous_hash |-> previous_hash]
    /\ UNCHANGED <<ents, uuid, now, pow, calls>>

CloneCall(l) ==
    /\ Len(ledgers) < MaxLedgers
    /\ \E w \in {Clone(World(l))} :
          /\ ledgers' = Append(ledgers, w.L)
          /\ lists' = w.H
    /\ last' = [op |-> "clone", ledger |-> l, fork |-> Len(ledgers) + 1]
    /\ UNCHANGED <<ents, uuid, now, pow, calls>>

GivesCall(e, l, r, amount) ==
    \E res \in {Gives(World(l), ents, uuid, e, r, amount, now)} :
        /\ res.status = "ok" => /\ Len(ledgers) < MaxLedgers
                                /\ Len(ledgers[l].chain) < MaxChain
        /\ Len(res.ents[r].keys) <= MaxKeys
        /\ ledgers' = IF res.status = "ok" THEN Append(ledgers, res.w.L)
                      ELSE ledgers
        /\ lists' = res.w.H
        /\ ents' = res.ents
        /\ uuid' = res.uuid
        /\ last' = [op |-> "gives", ent |-> e, ledger |-> l, to |-> r,
                    amount |-> amount, held |-> res.held,
                    balance |-> res.balance, status |-> res.status,
                    fork |-> IF res.status = "ok" THEN Len(ledgers) + 1 ELSE 0]
        /\ UNCHANGED <<now, pow, calls>>

\* mine(blockchain, speed): with a speed given, the call may return None.
MineCall(e, l, skipped) ==
    IF skipped
    THEN /\ last' = [op |-> "mine", ent |-> e, ledger |-> l, fork |-> 0]
         /\ UNCHANGED <<ledgers, lists, ents, uuid, now, pow, calls>>
    ELSE /\ Len(ledgers) < MaxLedgers
         /\ Len(ledgers[l].chain) < MaxChain
         /\ Len(ents[e].keys) < MaxKeys
         /\ \E res \in {Mine(World(l), ents[e], uuid, now)} :
               /\ ledgers' = Append(ledgers, res.w.L)
               /\ lists' = res.w.H
               /\ ents' = [ents EXCEPT ![e] = res.ent]
         /\ uuid' = uuid + 2
         /\ last' = [op |-> "mine", ent |-> e, ledger |-> l,
                     fork |-> Len(ledgers) + 1]
         /\ UNCHANGED <<now, pow, calls>>

SomeFakeCall(e, l) ==
    /\ Len(ledgers) < MaxLedgers
    /\ Len(ents[e].keys) < MaxKeys
    /\ \E res \in {SomeFake(World(l), ents[e], uuid)} :
          /\ ledgers' = Append(ledgers, res.w.L)
          /\ lists' = res.w.H
          /\ ents' = [ents EXCEPT ![e] = res.ent]
          /\ uuid' = uuid + res.minted
    /\ last' = [op |-> "some_fake", ent |-> e, ledger |-> l,
                fork |-> Len(ledgers) + 1]
    /\ UNCHANGED <<now, pow, calls>>

----------------------------------------------------------------------------
(* Lists nothing refers to any more are collected: the references that    *)
(* remain are renumbered in their order.  A caller keeps a returned ledger *)
(* as the node's own and lets the old one and the other copies go.         *)

Refs(ls) == UNION {{ls[k].current_transactions} \cup
                   {ls[k].chain[i].transactions : i \in 1..Len(ls[k].chain)}
                   : k \in 1..Len(ls)}

Rank(R, r) == Cardinality({x \in R : x <= r})

Collect(ls, heap) ==
    LET R == Refs(ls)
    IN  [L |-> [k \in 1..Len(ls) |->
                  [ls[k] EXCEPT
                     !.current_transactions = Rank(R, @),
                     !.chain = [i \in 1..Len(ls[k].chain) |->
                                  [ls[k].chain[i] EXCEPT
                                     !.transactions = Rank(R, @)]]]],
         H |-> [n \in 1..Cardinality(R) |->
                  heap[CHOOSE r \in R : Rank(R, r) = n]]]

Adopt(k) ==
    /\ k \in 2..Len(ledgers)
    /\ \E kept \in {Collect(<<ledgers[k]>>, lists)} :
          /\ ledgers' = kept.L
          /\ lists' = kept.H
    /\ last' = [op |-> "adopt", fork |-> k]
    /\ UNCHANGED <<ents, uuid, now, pow, calls>>

----------------------------------------------------------------------------
(* register_node and resolve_conflicts.  An address is a scheme and what   *)
(* follows it; urlparse finds a netloc only after a scheme.  A peer's      *)
(* answer to GET /chain has a status code and, with status 200, a length   *)
(* and a chain, both as the peer chooses them; status 0 stands for no      *)
(* answer at all (requests.get raises).                                    *)

Netloc(address) == IF address.scheme = "" THEN "" ELSE address.rest

RegisterNode(L, address) == [L EXCEPT !.nodes = @ \cup {Netloc(address)}]

\* One turn of the loop over the peers: st holds max_length, new_chain
\* (None until a chain is taken) and whether an exception was raised.
ResolveStep(st, response, mining_rate) ==
    IF response.status = 0 THEN [st EXCEPT !.raised = TRUE]
    ELSE IF response.status # 200 THEN st
    ELSE IF ~(response.length > st.max_length) THEN st
    ELSE IF response.chain = <<>> THEN [st EXCEPT !.raised = TRUE]
    ELSE IF ValidChain(response.chain, mining_rate)
         THEN [st EXCEPT !.max_length = response.length,
                         !.new_chain = response.chain]
    ELSE st

RECURSIVE ResolveLoop(_, _, _)
ResolveLoop(responses, st, mining_rate) ==
    IF responses = <<>> \/ st.raised THEN st
    ELSE ResolveLoop(Tail(responses),
                     ResolveStep(st, Head(responses), mining_rate),
                     mining_rate)

\* A chain received as a value becomes the ledger's chain: its transaction
\* lists are new objects.
Intern(chain, heap) ==
    [L |-> [i \in 1..Len(chain) |->
              [chain[i] EXCEPT !.transactions = Len(heap) + i]],
     H |-> heap \o [i \in 1..Len(chain) |-> chain[i].transactions]]

\* resolve_conflicts on the responses in the order the peers are visited:
\* "raised", or the value returned and the world it leaves.
ResolveConflicts(w, responses) ==
    LET st == ResolveLoop(responses,
                          [max_length |-> Len(w.L.chain), new_chain |-> None,
                           raised |-> FALSE], w.L.mining_rate)
        new == Intern(st.new_chain, w.H)
    IN  IF st.raised THEN [result |-> "raised", w |-> w]
        ELSE IF st.new_chain # None
        THEN [result |-> "True",
              w |-> [L |-> [w.L EXCEPT !.chain = new.L], H |-> new.H]]
        ELSE [result |-> "False", w |-> w]

----------------------------------------------------------------------------
(* The requests that reach the node's consensus code.                      *)

Addresses == {[scheme |-> "http", rest |-> "p1"],
              [scheme |-> "http", rest |-> "p2"],
              [scheme |-> "", rest |-> "p1"]}

RegisterNodeCall(address) ==
    /\ Cardinality(ledgers[1].nodes \cup {Netloc(address)}) <= MaxPeers
    /\ ledgers' = [ledgers EXCEPT ![1] = RegisterNode(@, address)]
    /\ last' = [op |-> "register_node", address |-> address]
    /\ UNCHANGED <<lists, ents, uuid, now, pow, calls>>

\* The chains a peer may send: what some ledger holds, or nothing.
PeerChains == {ChainValue(ledgers[k].chain, lists) : k \in 1..Len(ledgers)}
              \cup {<<>>}

\* What a peer may answer: no answer, an error status, or a chain with its
\* true length or with a length beyond any chain.
Answers(node) ==
    {[status |-> 0, length |-> 0, chain |-> <<>>]}
    \cup (IF node = "" THEN {}
          ELSE {[status |-> 500, length |-> 0, chain |-> <<>>]}
               \cup {[status |-> 200, length |-> n, chain |-> c] :
                       c \in PeerChains, n \in {MaxChain + 1}}
               \cup {[status |-> 200, length |-> Len(c), chain |-> c] :
                       c \in PeerChains})

\* The orders in which a set may be visited.
Orders(S) == {o \in [1..Cardinality(S) -> S] :
                 \A x \in S : \E i \in 1..Cardinality(S) : o[i] = x}

\* resolve_conflicts, the peers visited in `order` and answering `answer`.
ResolveCall(order, answer) ==
    \E responses \in {[i \in 1..Len(order) |-> answer[order[i]]]} :
    \E res \in {ResolveConflicts(World(1), responses)} :
    \E kept \in {Collect([ledgers EXCEPT ![1] = res.w.L], res.w.H)} :
        /\ ledgers' = kept.L
        /\ lists' = kept.H
        /\ last' = [op |-> "resolve_conflicts", responses |-> responses,
                    before |-> Len(ledgers[1].chain), result |-> res.result]
        /\ UNCHANGED <<ents, uuid, now, pow, calls>>

----------------------------------------------------------------------------
(* The entities and their forks: entity A mints addresses, mines, gives to *)
(* B and fabricates; requests add transactions naming A's addresses to     *)
(* the node's ledger; a returned ledger may be kept as the node's own.     *)

Amounts == 1..MaxAmount

Owned(e) == {ents[e].keys[i][1] : i \in 1..Len(ents[e].keys)}

Next ==
    \/ NewAddressCall("A")
    \/ \E sender \in Owned("A") \cup {FromMine}, recipient \in Owned("A"),
          amount \in 1..MaxRequest :
          NewTransactionCall(1, sender, recipient, amount)
    \/ \E l \in 1..Len(ledgers), amount \in Amounts :
          GivesCall("A", l, "B", amount)
    \/ \E l \in 1..Len(ledgers), skipped \in BOOLEAN :
          MineCall("A", l, skipped)
    \/ \E l \in 1..Len(ledgers) : SomeFakeCall("A", l)
    \/ \E k \in 1..Len(ledgers) : Adopt(k)

Spec == Init /\ [][Next]_vars

----------------------------------------------------------------------------
(* The ledger alone: requests add transactions and seal blocks with any    *)
(* proof and previous_hash, and the clock advances.                        *)

Senders == {FromMine, Id(0)}

Proofs(l) == {0, WorkForProof(ledgers[l])}

PreviousHashes(l) == {None, Sentinel,
                      Hash(BlockValue(LastBlock(ledgers[l]), lists))}

NextLedger ==
    \/ Tick
    \/ \E sender \in Senders, amount \in Amounts :
          NewTransactionCall(1, sender, Id(0), amount)
    \/ \E proof \in Proofs(1), previous_hash \in PreviousHashes(1) :
          NewBlockCall(1, proof, previous_hash)

SpecLedger == Init /\ [][NextLedger]_vars

----------------------------------------------------------------------------
(* The node among its peers: nodes are registered, conflicts resolved; the *)
(* chains the peers hold are those mined or sealed on copies.              *)

NextNet ==
    \/ \E address \in Addresses : RegisterNodeCall(address)
    \/ \E order \in Orders(ledgers[1].nodes) :
       \E answer \in [ledgers[1].nodes -> UNION {Answers(n) : n \in ledgers[1].nodes}] :
          /\ \A n \in ledgers[1].nodes : answer[n] \in Answers(n)
          /\ ResolveCall(order, answer)
    \/ \E l \in 1..Len(ledgers) : MineCall("A", l, FALSE)
    \/ \E l \in 2..Len(ledgers) : NewBlockCall(l, 0, None)

SpecNet == Init /\ [][NextNet]_vars

----------------------------------------------------------------------------
(* Ledgers and their clones: any ledger is cloned, given a transaction or  *)
(* a mined block.                                                          *)

NextClone ==
    \/ \E l \in 1..Len(ledgers) : CloneCall(l)
    \/ \E l \in 1..Len(ledgers), amount \in Amounts :
          NewTransactionCall(l, FromMine, Id(0), amount)
    \/ \E l \in 1..Len(ledgers) :
          NewBlockCall(l, WorkForProof(ledgers[l]), None)

SpecClone == Init /\ [][NextClone]_vars

----------------------------------------------------------------------------
(* Proof of work alone, on a node built with any genesis proof and any     *)
(* mining_rate: valid_proof is called on the last block's proof with any   *)
(* candidate and any mining_rate, and proof_of_work runs its loop one      *)
(* candidate at a time; the proof it returns seals a block, from which     *)
(* the next search starts.                                                 *)

GenesisProofs == {0, 7, DefaultProof}

Rates == 0..MaxRate

InitPoW ==
    /\ \E proof \in GenesisProofs, mining_rate \in Rates :
          /\ ledgers = << Blockchain(<<>>, proof, mining_rate, 1).L >>
          /\ lists = Blockchain(<<>>, proof, mining_rate, 1).H
    /\ ents = [e \in Ents |-> NewEnt]
    /\ uuid = 0
    /\ now = 1
    /\ pow = Idle
    /\ calls = [t \in Threads |-> NoCall]
    /\ last = [op |-> "init"]

ValidProofCall(last_proof, proof, mining_rate) ==
    /\ pow.phase = "idle"
    /\ last' = [op |-> "valid_proof", last_proof |-> last_proof,
                proof |-> proof, mining_rate |-> mining_rate,
                result |-> ValidProof(last_proof, proof, mining_rate)]
    /\ UNCHANGED <<ledgers, lists, ents, uuid, now, pow, calls>>

\* proof_of_work(last_proof): proof = 0
PowCall ==
    /\ pow.phase = "idle"
    /\ Len(ledgers[1].chain) < MaxChain
    /\ pow' = [phase |-> "run", last_proof |-> LastBlock(ledgers[1]).proof,
               mining_rate |-> ledgers[1].mining_rate, proof |-> 0]
    /\ last' = [op |-> "proof_of_work"]
    /\ UNCHANGED <<ledgers, lists, ents, uuid, now, calls>>

\* one turn of the while loop: the candidate is refused, proof += 1
PowStep ==
    /\ pow.phase = "run"
    /\ pow.proof < MaxNonce
    /\ ~ValidProof(pow.last_proof, pow.proof, pow.mining_rate)
    /\ pow' = [pow EXCEPT !.proof = @ + 1]
    /\ last' = [op |-> "proof_of_work"]
    /\ UNCHANGED <<ledgers, lists, ents, uuid, now, calls>>

\* the loop ends: the statistics are updated and the proof returned
PowReturn ==
    /\ pow.phase = "run"
    /\ ValidProof(pow.last_proof, pow.proof, pow.mining_rate)
    /\ pow' = [pow EXCEPT !.phase = "done"]
    /\ ledgers' = [ledgers EXCEPT ![1] = Worked(World(1), pow.proof).L]
    /\ last' = [op |-> "proof_of_work"]
    /\ UNCHANGED <<lists, ents, uuid, now, calls>>

\* the caller seals a block with the proof returned
PowSeal ==
    /\ pow.phase = "done"
    /\ pow' = Idle
    /\ \E w \in {NewBlock(World(1), pow.proof, None, now)} :
          /\ ledgers' = [ledgers EXCEPT ![1] = w.L]
          /\ lists' = w.H
    /\ last' = [op |-> "new_block", ledger |-> 1, proof |-> pow.proof,
                previous_hash |-> None]
    /\ UNCHANGED <<ents, uuid, now, calls>>

NextPoW ==
    \/ \E proof \in 0..MaxNonce, mining_rate \in Rates :
          ValidProofCall(LastBlock(ledgers[1]).proof, proof, mining_rate)
    \/ PowCall
    \/ PowStep
    \/ PowReturn
    \/ PowSeal

SpecPoW == InitPoW /\ [][NextPoW]_vars

----------------------------------------------------------------------------
(* The properties of the specification, each stated on the model above.    *)

\* What a ledger holds: its chain with every block's contents, and its
\* pending buffer.
LedgerValue(L, heap) ==
    [chain |-> ChainValue(L.chain, heap),
     pending |-> heap[L.current_transactions]]

\* A response that offers a valid chain really longer than `before`.
OffersLonger(response, before, mining_rate) ==
    /\ response.status = 200
    /\ Len(response.chain) > before
    /\ ValidChain(response.chain, mining_rate)

\* C1: resolve_conflicts replaces the local chain if and only if some peer
\* provides a valid chain strictly longer than the local one; a chain whose
\* actual length is not greater than the local chain's never replaces it.
\* Refuted: the code compares the length the peer reports, not the length
\* of the chain it sends.
C1_LongestValidReplaces ==
    (last.op = "resolve_conflicts" /\ last.result # "raised") =>
        /\ (last.result = "True") <=>
              \E i \in DOMAIN last.responses :
                 OffersLonger(last.responses[i], last.before,
                              ledgers[1].mining_rate)
        /\ (last.result = "True") => Len(ledgers[1].chain) > last.before

\* A chain value is linked: the first block carries the sentinel and every
\* later block the hash of the block before it.
Linked(chain) ==
    /\ chain[1].previous_hash = Sentinel
    /\ \A i \in 2..Len(chain) : chain[i].previous_hash = Hash(chain[i - 1])

\* C2 as written: after any sequence of new_transaction and new_block calls
\* the chain is linked.  Refuted: new_block takes a previous_hash the
\* caller supplies as it is.
C2_AlwaysLinked == Linked(ChainValue(ledgers[1].chain, lists))

\* C2 amended: the genesis chain is linked, and a linked chain stays linked
\* under new_transaction and under every new_block call whose previous_hash
\* is absent or is the hash of the current last block.
C2_LinkedPreserved ==
    /\ Linked(ChainValue(Blockchain(<<>>, DefaultProof, DefaultRate, 1).L.chain,
                         Blockchain(<<>>, DefaultProof, DefaultRate, 1).H))
    /\ [][(/\ Linked(ChainValue(ledgers[1].chain, lists))
           /\ last'.op = "new_block" =>
                 last'.previous_hash \in
                    {None, Hash(BlockValue(LastBlock(ledgers[1]), lists))})
          => Linked(ChainValue(ledgers'[1].chain, lists'))]_vars

\* C2's case: a chain of three or more linked blocks, one of them holding a
\* transaction, whose last block was sealed without a previous_hash.
C2_Witness ==
    /\ last.op = "new_block" /\ last.previous_hash = None
    /\ Len(ledgers[1].chain) >= 3
    /\ Linked(ChainValue(ledgers[1].chain, lists))
    /\ \E i \in 2..Len(ledgers[1].chain) :
          lists[ledgers[1].chain[i].transactions] # <<>>

\* C3: after clone() the copy and the source share no mutable object.
\* Refuted: the copy's blocks refer to the very transaction lists of the
\* source's blocks.
C3_CloneSharesNothing ==
    last.op = "clone" =>
        Refs(<<ledgers[last.ledger]>>) \cap Refs(<<ledgers[last.fork]>>) = {}

\* C4: gives, mine and some_fake leave the ledger passed to them as it was:
\* its chain, the contents of every block and its pending buffer.
C4_ForksLeaveOriginal ==
    [][last'.op \in {"gives", "mine", "some_fake"} =>
          LedgerValue(ledgers'[last'.ledger], lists')
             = LedgerValue(ledgers[last'.ledger], lists)]_vars

\* C4's case: some_fake has returned a copy whose blocks differ from the
\* original's, which still holds a transaction in a sealed block.
C4_Witness ==
    /\ last.op = "some_fake"
    /\ ChainValue(ledgers[last.fork].chain, lists)
          # ChainValue(ledgers[last.ledger].chain, lists)
    /\ Transactions(ChainValue(ledgers[last.ledger].chain, lists)) # <<>>

\* The recorded sender/message/signature of a transaction verifies with
\* the keys of some entity.
RecordedVerifies(t) ==
    /\ t.signature # None
    /\ \E e \in Ents :
          Verify(ents[e].crypto, t.sender, IntStr(t.message), t.signature)

\* The chain with the transactions that do not verify left out.
VerifiedOnly(chain) ==
    [i \in 1..Len(chain) |->
        [chain[i] EXCEPT !.transactions = SelectSeq(@, RecordedVerifies)]]

\* C5: balance counts only verified transactions: for every entity and
\* every chain, the balance is the one the verified transactions alone
\* give.  Refuted: balance never reads the recorded message or signature.
C5_OnlyVerifiedCount ==
    \A e \in Ents, l \in 1..Len(ledgers) :
        Balance(ents[e], ChainValue(ledgers[l].chain, lists), now, uuid)
           = Balance(ents[e],
                     VerifiedOnly(ChainValue(ledgers[l].chain, lists)),
                     now, uuid)

\* C6: a peer that cannot be reached is skipped: when one peer gives no
\* answer and another offers a valid chain longer than the local one under
\* its true length, the chain is adopted.  Refuted: the exception of the
\* failed fetch leaves resolve_conflicts.
C6_UnreachablePeerSkipped ==
    (/\ last.op = "resolve_conflicts"
     /\ \E i \in DOMAIN last.responses : last.responses[i].status = 0
     /\ \E j \in DOMAIN last.responses :
           /\ last.responses[j].length = Len(last.responses[j].chain)
           /\ OffersLonger(last.responses[j], last.before,
                           ledgers[1].mining_rate))
    => last.result = "True"

\* C7: gives with an amount above the giver's total balance fails with
\* "insufficient balance", returns no fork, and changes no ledger, no
\* transaction list and no entity (the recipient mints no address).
C7_InsufficientFunds ==
    [][(/\ last'.op = "gives"
        /\ last'.amount >
              Total(Balance(ents[last'.ent],
                            ChainValue(ledgers[last'.ledger].chain, lists),
                            now, uuid)))
       => /\ last'.status = "insufficient balance"
          /\ last'.fork = 0
          /\ UNCHANGED <<ledgers, lists, ents, uuid>>]_vars

\* C7's case: a giver holding coins has asked for more than it holds.
C7_Witness ==
    /\ last.op = "gives"
    /\ last.held >= 1
    /\ last.amount > last.held
    /\ last.status = "insufficient balance"

\* C8: gives fails with "negative balance" and returns no fork whenever an
\* address of the giver shows a negative balance and the amount does not
\* exceed the total.  Refuted: the loop leaves at the first address that
\* covers the amount, before it reaches the negative one.
C8_NegativeBalanceFails ==
    (/\ last.op = "gives"
     /\ last.amount <= last.held
     /\ \E i \in DOMAIN last.balance : last.balance[i][2] < 0)
    => (last.status = "negative balance" /\ last.fork = 0)

\* The target of difficulty D: the first D hex characters of the hash of
\* the two proofs in decimal are all "0".
TargetMet(last_proof, proof, difficulty) ==
    Prefix(HexDigest(Decimal(last_proof) \o Decimal(proof)), difficulty)
       = Zeros(difficulty)

\* C9: valid_proof is true if and only if the target of the difficulty
\* given is met, for every difficulty.  Refuted: the code compares the
\* first four characters whatever the difficulty.
C9_ValidProofIffTarget ==
    last.op = "valid_proof" =>
        (last.result <=> TargetMet(last.last_proof, last.proof,
                                   last.mining_rate))

\* C10: proof_of_work returns the smallest nonce that meets the target: the
\* search never steps past a nonce that meets it, and the nonce it returns
\* meets it.  Refuted: at a difficulty other than 4 the search goes past
\* nonces that meet the target and never returns.
C10_SearchFindsSmallest ==
    pow.phase \in {"run", "done"} =>
        /\ \A p \in 0..(pow.proof - 1) :
              ~TargetMet(pow.last_proof, p, pow.mining_rate)
        /\ pow.phase = "done" =>
              TargetMet(pow.last_proof, pow.proof, pow.mining_rate)

\* The blocks at which two chain values of one length differ.
DiffersAt(a, b) == {i \in 1..Len(a) : a[i] # b[i]}

\* C11: for a valid chain holding a transaction with a recipient, the copy
\* some_fake returns differs from the original in the transactions of one
\* block and still passes valid_chain, whichever block was changed.
\* Refuted: the block after the changed one no longer carries its hash.
C11_FakeStillValid ==
    (/\ last.op = "some_fake"
     /\ ValidChain(ChainValue(ledgers[last.ledger].chain, lists),
                   ledgers[last.ledger].mining_rate)
     /\ FirstBlockToFake(ledgers[last.ledger].chain, lists, 1) # 0)
    => /\ Len(ledgers[last.fork].chain) = Len(ledgers[last.ledger].chain)
       /\ Cardinality(DiffersAt(ChainValue(ledgers[last.fork].chain, lists),
                                ChainValue(ledgers[last.ledger].chain, lists)))
             = 1
       /\ ValidChain(ChainValue(ledgers[last.fork].chain, lists),
                     ledgers[last.fork].mining_rate)

----------------------------------------------------------------------------
(* The node's ledger between requests and consensus: transactions are      *)
(* added and blocks sealed on the node's ledger, whose chain a peer's      *)
(* answer may replace; the peers hold what was mined on copies.            *)

\* What a peer that mined on a copy may send: the copy's chain from its
\* first block or from a later one on, with its true length or with a
\* length beyond any chain.
ForkParts ==
    UNION {{SubSeq(ChainValue(ledgers[k].chain, lists), i,
                   Len(ledgers[k].chain)) : i \in 1..Len(ledgers[k].chain)}
           : k \in 2..Len(ledgers)}

ForkAnswers ==
    {[status |-> 200, length |-> n, chain |-> c] :
        c \in ForkParts, n \in 1..(MaxChain + 1)}

NextIndex ==
    \/ RegisterNodeCall([scheme |-> "http", rest |-> "p1"])
    \/ \E order \in Orders(ledgers[1].nodes) :
       \E answer \in [ledgers[1].nodes -> ForkAnswers] :
          ResolveCall(order, answer)
    \/ MineCall("A", 1, FALSE)
    \/ \E amount \in 1..MaxRequest :
          NewTransactionCall(1, FromMine, Id(0), amount)
    \/ NewBlockCall(1, WorkForProof(ledgers[1]), None)

SpecIndex == Init /\ [][NextIndex]_vars

\* C12: when new_transaction has returned k and new_block then seals the
\* buffer of that ledger, the sealed block holds the transaction and has
\* index k.  Refuted: new_transaction reads the index of the last block,
\* new_block the length of the chain, and a chain taken from a peer need
\* not number its blocks from 1.
C12_ReturnedIndexSealed ==
    [][(/\ last.op = "new_transaction"
        /\ last'.op = "new_block"
        /\ last'.ledger = last.ledger)
       => /\ LastBlock(ledgers'[last.ledger]).index = last.index
          /\ \E j \in DOMAIN lists'[LastBlock(ledgers'[last.ledger]).transactions] :
                lists'[LastBlock(ledgers'[last.ledger]).transactions][j]
                   = Transaction(last.sender, last.recipient, last.amount,
                                 None, 0)]_vars

\* C19: resolve_conflicts never shortens the local chain: whatever the
\* peers answer, the chain has at least as many blocks after the call as
\* before it, and more when the call returns True.  Refuted: the code
\* trusts the length a peer reports.
C19_NeverShortens ==
    last.op = "resolve_conflicts" =>
        /\ Len(ledgers[1].chain) >= last.before
        /\ (last.result = "True") => Len(ledgers[1].chain) > last.before

----------------------------------------------------------------------------
(* Mining alone: the entities mint addresses and mine, on the ledger or on *)
(* a copy, and a returned copy is kept as the ledger; nobody gives.        *)

NextMine ==
    \/ Tick
    \/ \E e \in Ents : NewAddressCall(e)
    \/ \E e \in Ents, l \in 1..Len(ledgers), skipped \in BOOLEAN :
          MineCall(e, l, skipped)
    \/ \E k \in 1..Len(ledgers) : Adopt(k)

SpecMine == Init /\ [][NextMine]_vars

\* The number of transactions of a chain value that name pk as recipient.
Naming(chain, pk) ==
    LET Names(t) == t.recipient = pk
    IN  Len(SelectSeq(Transactions(chain), Names))

\* C13: when blocks are only mined, the balance of an entity over a chain
\* credits each of its addresses with the reward once per transaction that
\* names it, the total is the sum of these, and an entity that mined all
\* n blocks after the genesis block has total n.
C13_MinedBalance ==
    \A e \in Ents, l \in 1..Len(ledgers) :
       LET chain == ChainValue(ledgers[l].chain, lists)
           balance == Balance(ents[e], chain, now, uuid)
           mined == Len(Transactions(chain))
       IN  /\ mined = Len(chain) - 1
           /\ \A i \in DOMAIN balance :
                 balance[i][2] = Reward * Naming(chain, balance[i][1])
           /\ (\A j \in 1..mined :
                  Transactions(chain)[j].recipient \in Owned(e))
              => Total(balance) = Len(chain) - 1

\* C13's case: entity A has mined two blocks in succession on a fresh
\* ledger, the first copy kept as the input of the second call.
C13_Witness ==
    /\ last.op = "mine" /\ last.ent = "A" /\ last.fork # 0
    /\ Len(ledgers[last.fork].chain) = 3
    /\ \A j \in 1..2 :
          Transactions(ChainValue(ledgers[last.fork].chain, lists))[j].recipient
             \in Owned("A")
    /\ Total(Balance(ents["A"], ChainValue(ledgers[last.fork].chain, lists),
                     now, uuid)) = 2

----------------------------------------------------------------------------
(* PyCryptoSim.key_pair line by line, on the simulator of entity A.  The   *)
(* two identifiers are drawn once, before the loop; uuid4() may draw any   *)
(* identifier, one in the registry included.                               *)

KeyIds == {Id(n) : n \in 0..(MaxKeys - 1)}

\* lines 244-247: public and private are drawn
KeyPairCall(t, public, private) ==
    /\ calls[t] = NoCall
    /\ calls' = [calls EXCEPT ![t] = [op |-> "key_pair", pc |-> "loop",
                                      public |-> public, private |-> private]]
    /\ last' = [op |-> "key_pair", public |-> public, private |-> private,
                result |-> "running"]
    /\ UNCHANGED <<ledgers, lists, ents, uuid, now, pow>>

\* lines 248-251: one turn of while True; with public in the registry the
\* turn changes nothing and the loop goes round
KeyPairTurn(t) ==
    /\ calls[t].op = "key_pair" /\ calls[t].pc = "loop"
    /\ IF Get(ents["A"].crypto, calls[t].public) = NoAddr
       THEN /\ ents' = [ents EXCEPT !["A"].crypto =
                           KeyPair(@, calls[t].public, calls[t].private)]
            /\ calls' = [calls EXCEPT ![t].pc = "check"]
       ELSE UNCHANGED <<ents, calls>>
    /\ UNCHANGED <<ledgers, lists, uuid, now, pow, last>>

\* lines 252-254: the check of the registered pair, and the return
KeyPairReturn(t) ==
    /\ calls[t].op = "key_pair" /\ calls[t].pc = "check"
    /\ calls' = [calls EXCEPT ![t] = NoCall]
    /\ last' = [op |-> "key_pair", public |-> calls[t].public,
                private |-> calls[t].private,
                result |-> IF Get(ents["A"].crypto, calls[t].public)
                                 # calls[t].private
                           THEN "raised" ELSE "returned"]
    /\ UNCHANGED <<ledgers, lists, ents, uuid, now, pow>>

NextKeys ==
    \/ \E public \in KeyIds, private \in KeyIds : KeyPairCall(1, public, private)
    \/ KeyPairTurn(1)
    \/ KeyPairReturn(1)

SpecKeys == Init /\ [][NextKeys]_vars

\* C14: key_pair always terminates, also when the identifier drawn is in
\* the registry: a call in progress can always take a step that changes
\* the state (it registers, retries with a new identifier, or returns).
\* Refuted: when public is registered the loop has no such step.
C14_KeyPairProgresses ==
    calls[1].op = "key_pair" =>
        ENABLED <<KeyPairTurn(1) \/ KeyPairReturn(1)>>_vars

\* The transactions a successful gives has emitted: those of the copy's
\* new block that follow the ones the original's buffer held.
Emitted ==
    SubSeq(lists[LastBlock(ledgers[last.fork]).transactions],
           Len(lists[ledgers[last.ledger].current_transactions]) + 1,
           Len(lists[LastBlock(ledgers[last.fork]).transactions]))

\* C15: every transaction a successful gives emits carries the commit of
\* its message under the private identifier of its sender address, so that
\* verify accepts it on the giver's simulator.  Refuted: gives commits
\* with the address itself, the public identifier.
C15_EmittedVerify ==
    (last.op = "gives" /\ last.status = "ok") =>
        \A j \in DOMAIN Emitted :
           /\ Emitted[j].signature
                 = Commit(Get(ents[last.ent].keys, Emitted[j].sender),
                          IntStr(Emitted[j].message))
           /\ Verify(ents[last.ent].crypto, Emitted[j].sender,
                     IntStr(Emitted[j].message), Emitted[j].signature)

RECURSIVE SumAmounts(_)
SumAmounts(txs) == IF txs = <<>> THEN 0
                   ELSE Head(txs).amount + SumAmounts(Tail(txs))

----------------------------------------------------------------------------
(* new_transaction and new_block line by line, by the threads that serve   *)
(* requests on the node's ledger.  A thread may be suspended between any   *)
(* two of its steps; between the evaluation of self.current_transactions   *)
(* and the call of append on the list it gave, too.                        *)

InFlight(op, pcs) ==
    Cardinality({t \in Threads : calls[t].op = op /\ calls[t].pc \in pcs})

\* lines 142-151: the dictionary is built and self.current_transactions
\* evaluated; the list it refers to is the one append will be called on
NtLoad(t, sender, recipient, amount) ==
    /\ calls[t] = NoCall
    /\ Len(lists[ledgers[1].current_transactions])
          + InFlight("new_transaction", {"append"}) < MaxPending
    /\ calls' = [calls EXCEPT ![t] =
                    [op |-> "new_transaction", pc |-> "append",
                     transaction |-> Transaction(sender, recipient, amount,
                                                 None, 0),
                     list |-> ledgers[1].current_transactions]]
    /\ UNCHANGED <<ledgers, lists, ents, uuid, now, pow, last>>

\* line 151: append
NtAppend(t) ==
    /\ calls[t].op = "new_transaction" /\ calls[t].pc = "append"
    /\ lists' = [lists EXCEPT ![calls[t].list] =
                    Append(@, calls[t].transaction)]
    /\ calls' = [calls EXCEPT ![t].pc = "return"]
    /\ UNCHANGED <<ledgers, ents, uuid, now, pow, last>>

\* line 153: return self.last_block['index'] + 1
NtReturn(t) ==
    /\ calls[t].op = "new_transaction" /\ calls[t].pc = "return"
    /\ calls' = [calls EXCEPT ![t] = NoCall]
    /\ last' = [op |-> "new_transaction", ledger |-> 1,
                sender |-> calls[t].transaction.sender,
                recipient |-> calls[t].transaction.recipient,
                amount |-> calls[t].transaction.amount,
                index |-> NewTransactionIndex(ledgers[1])]
    /\ UNCHANGED <<ledgers, lists, ents, uuid, now, pow>>

\* lines 119-125: the block dictionary is built; it refers to the list
\* that is the pending buffer at this moment
NbBuild(t, proof, previous_hash) ==
    /\ calls[t] = NoCall
    /\ Len(ledgers[1].chain) + InFlight("new_block", {"clear", "append"})
          < MaxChain
    /\ calls' = [calls EXCEPT ![t] =
                    [op |-> "new_block", pc |-> "clear",
                     proof |-> proof, previous_hash |-> previous_hash,
                     block |-> [index |-> Len(ledgers[1].chain) + 1,
                                timestamp |-> now,
                                transactions |-> ledgers[1].current_transactions,
                                proof |-> proof,
                                previous_hash |->
                                   PreviousHashOr(previous_hash, ledgers[1],
                                                  lists)]]]
    /\ UNCHANGED <<ledgers, lists, ents, uuid, now, pow, last>>

\* line 128: self.current_transactions = []
NbClear(t) ==
    /\ calls[t].op = "new_block" /\ calls[t].pc = "clear"
    /\ lists' = Append(lists, <<>>)
    /\ ledgers' = [ledgers EXCEPT ![1].current_transactions = Len(lists) + 1]
    /\ calls' = [calls EXCEPT ![t].pc = "append"]
    /\ UNCHANGED <<ents, uuid, now, pow, last>>

\* lines 130-131: self.chain.append(block); return block
NbAppend(t) ==
    /\ calls[t].op = "new_block" /\ calls[t].pc = "append"
    /\ ledgers' = [ledgers EXCEPT ![1].chain = Append(@, calls[t].block)]
    /\ calls' = [calls EXCEPT ![t] = NoCall]
    /\ last' = [op |-> "new_block", ledger |-> 1, proof |-> calls[t].proof,
                previous_hash |-> calls[t].previous_hash]
    /\ UNCHANGED <<lists, ents, uuid, now, pow>>

NextThreads ==
    \/ \E t \in Threads, amount \in 1..MaxRequest :
          NtLoad(t, FromMine, Id(0), amount)
    \/ \E t \in Threads : NtAppend(t)
    \/ \E t \in Threads : NtReturn(t)
    \/ \E t \in Threads : NbBuild(t, WorkForProof(ledgers[1]), None)
    \/ \E t \in Threads : NbClear(t)
    \/ \E t \in Threads : NbAppend(t)

SpecThreads == Init /\ [][NextThreads]_vars

\* C17: sealed blocks stay as they are under concurrent requests: no step
\* of any interleaving changes the transaction list of a block that is in
\* the chain.  Refuted: a new_transaction suspended before append writes
\* to the list a new_block has sealed in the meantime.
C17_SealedBlocksImmutable ==
    [][\A i \in 1..Len(ledgers[1].chain) :
          lists'[ledgers[1].chain[i].transactions]
             = lists[ledgers[1].chain[i].transactions]]_vars

\* The places that hold list r: the pending buffer and the blocks.
Holders(r) ==
    (IF ledgers[1].current_transactions = r THEN 1 ELSE 0)
    + Cardinality({i \in 1..Len(ledgers[1].chain) :
                      ledgers[1].chain[i].transactions = r})

\* C18: no transaction is lost or duplicated by sealing: whenever no
\* new_block call is in progress, every list that holds a transaction is
\* in exactly one place, the pending buffer or one block of the chain.
\* Refuted: two new_block calls that read the buffer before either clears
\* it seal the same list in two blocks.
C18_ExactlyOnePlace ==
    InFlight("new_block", {"clear", "append"}) = 0 =>
        \A r \in DOMAIN lists : lists[r] # <<>> => Holders(r) = 1

----------------------------------------------------------------------------
(* The node's own chain: requests add transactions to the node's ledger;   *)
(* A mines and gives on it and the node keeps the ledger returned, or lets *)
(* it go to a peer; a peer may seal a block on what it holds without       *)
(* searching a proof; the node resolves conflicts against the peers.       *)

\* The caller keeps the ledger the last mine or successful gives returned.
AdoptReturned ==
    /\ last.op \in {"mine", "gives"}
    /\ last.fork # 0
    /\ Adopt(last.fork)

\* The caller lets the returned ledgers go.
Discard ==
    /\ Len(ledgers) > 1
    /\ \E kept \in {Collect(<<ledgers[1]>>, lists)} :
          /\ ledgers' = kept.L
          /\ lists' = kept.H
    /\ last' = [op |-> "discard"]
    /\ UNCHANGED <<ents, uuid, now, pow, calls>>

FromGenesis(chain) == chain[1].previous_hash = Sentinel

\* What a peer answers to the node: no answer, or a chain a copy holds,
\* whole or (once, while the node's chain still starts at the genesis
\* block) from a later block on, with any length.
NodeAnswers ==
    {[status |-> 0, length |-> 0, chain |-> <<>>]}
    \cup {a \in ForkAnswers :
             FromGenesis(a.chain) \/ FromGenesis(ledgers[1].chain)}

NextNode ==
    \/ \E amount \in 1..MaxRequest :
          NewTransactionCall(1, FromMine, Id(0), amount)
    \/ MineCall("A", 1, FALSE)
    \/ \E amount \in 1..MaxRequest : GivesCall("A", 1, "B", amount)
    \/ AdoptReturned
    \/ Discard
    \/ RegisterNodeCall([scheme |-> "http", rest |-> "p1"])
    \/ \E l \in 2..Len(ledgers) : NewBlockCall(l, 0, None)
    \/ \E order \in Orders(ledgers[1].nodes) :
       \E answer \in [ledgers[1].nodes -> NodeAnswers] :
          ResolveCall(order, answer)

SpecNode == Init /\ [][NextNode]_vars

\* C20: the node's own chain always passes valid_chain at the ledger's
\* difficulty, whatever transactions were added, ledgers returned by mine
\* and by a successful gives kept, and conflicts resolved.
C20_OwnChainValid ==
    ValidChain(ChainValue(ledgers[1].chain, lists), ledgers[1].mining_rate)

\* C20's case: the node took a peer's chain that does not start at the
\* genesis block, and has since kept a ledger mined on it.
C20_Witness ==
    /\ last.op = "adopt"
    /\ ~FromGenesis(ledgers[1].chain)
    /\ Len(ledgers[1].chain) >= 2

=============================================================================
